---- MODULE Spec2Model ----
(***************************************************************************)
(* Model of crates/bevy_ecs/src/into_system.rs: the adapters that turn a   *)
(* function into a System (SystemFn built by the for-each and query        *)
(* constructors, ThreadLocalSystem), the Query view, and the calls a       *)
(* caller can make on a boxed System: initialize, run, run_thread_local.   *)
(*                                                                         *)
(* Commands, Resources, SystemId and the hecs World are used by this file  *)
(* but defined elsewhere; they are modelled from their documented          *)
(* contracts (an ordered shared buffer, a keyed container, an atomic       *)
(* counter, an entity store).                                              *)
(***************************************************************************)
EXTENDS Integers, Sequences, FiniteSets, TLC

\* Bounds of the model.
MaxEntities == 2         \* entity ids the store can hold
MaxCommands == 2         \* edits pending in the buffers before a flush
MaxInits == 1            \* initialize calls a free caller makes on one unit

\* two construction sites, each building one boxed System
Slots == {1, 2}
Entities == 0..(MaxEntities - 1)
Components == {"A", "B"}
Ids == {0, 1, 2}
Handles == {1, 2, 3}

VARIABLES
    next_id,     \* the identity issuer's process-wide counter
    systems,     \* slot -> the boxed System built there (kind "none" before)
    pc,          \* slot -> where the slot's thread is: none, constructing,
                 \*         idle, in_run, in_run_thread_local
    frame,       \* slot -> locals of the call in progress
    heap,        \* Commands handle -> the buffer it points to (Arc<Mutex<..>>)
    world,       \* entity -> its set of components (domain: live entities)
    resources,   \* id -> number of registrations made under that id
    inits,       \* slot -> number of initialize calls made on the slot's unit
    recorded,    \* slot -> the edits the unit's user function has recorded since
                 \*         the unit's last run_thread_local, in recording order
    lookup,      \* the Query::get / get_mut just made and what it returned
    last         \* the last operation, when it was a flush ("flushed", n edits
                 \* applied), a thread-local function's call ("thread_local_fn",
                 \* n edits made) or a ThreadLocalSystem's run ("thread_local_run")

vars == <<next_id, systems, pc, frame, heap, world, resources, inits, recorded,
          lookup, last>>

----------------------------------------------------------------------------
(* Sequences helpers *)

RECURSIVE SeqOfSet(_)
\* the elements of a finite set of integers in ascending order
SeqOfSet(S) ==
    IF S = {} THEN <<>>
    ELSE LET m == CHOOSE x \in S : \A y \in S : x <= y
         IN <<m>> \o SeqOfSet(S \ {m})

Range(q) == {q[i] : i \in 1..Len(q)}

----------------------------------------------------------------------------
(* hecs World: the entity store (boundary of this file) *)

\* world.query::<(C1, .., Cn)>().iter(): the live entities that carry every
\* component of the shape, in storage order
World_query(w, shape) ==
    SeqOfSet({e \in DOMAIN w : shape \subseteq w[e]})

\* world.get::<T>(entity) / world.get_mut::<T>(entity)
World_get(w, e, t) ==
    IF e \notin DOMAIN w THEN [ok |-> FALSE, val |-> "NoSuchEntity"]
    ELSE IF t \notin w[e] THEN [ok |-> FALSE, val |-> "MissingComponent"]
    ELSE [ok |-> TRUE, val |-> t]

World_spawn(w, comps) ==
    IF DOMAIN w = Entities THEN w
    ELSE LET e == CHOOSE x \in Entities \ DOMAIN w :
                      \A y \in Entities \ DOMAIN w : x <= y
         IN [x \in DOMAIN w \cup {e} |-> IF x = e THEN comps ELSE w[x]]

World_despawn(w, e) == [x \in DOMAIN w \ {e} |-> w[x]]

World_insert(w, e, c) ==
    IF e \in DOMAIN w THEN [w EXCEPT ![e] = @ \cup {c}] ELSE w

World_remove(w, e, c) ==
    IF e \in DOMAIN w THEN [w EXCEPT ![e] = @ \ {c}] ELSE w

----------------------------------------------------------------------------
(* Commands: the deferred-mutation buffer (boundary of this file) *)

Spawn(comps) == [op |-> "spawn", entity |-> -1, comps |-> comps]
Despawn(e) == [op |-> "despawn", entity |-> e, comps |-> {}]
Insert(e, c) == [op |-> "insert", entity |-> e, comps |-> {c}]
Remove(e, c) == [op |-> "remove", entity |-> e, comps |-> {c}]

\* the edits a user function records in this model
Edits == {Spawn({"A"}), Despawn(0), Insert(0, "B")}

\* one recorded edit applied to the world
Command_write(w, c) ==
    CASE c.op = "spawn" -> World_spawn(w, c.comps)
      [] c.op = "despawn" -> World_despawn(w, c.entity)
      [] c.op = "insert" -> World_insert(w, c.entity, CHOOSE x \in c.comps : TRUE)
      [] c.op = "remove" -> World_remove(w, c.entity, CHOOSE x \in c.comps : TRUE)

RECURSIVE Commands_apply(_, _)
\* commands.apply(world, resources): every recorded edit, in recording order
Commands_apply(buf, w) ==
    IF buf = <<>> THEN w
    ELSE Commands_apply(Tail(buf), Command_write(w, Head(buf)))

\* Commands::default(): a handle to a new, empty buffer
Commands_default(hp) ==
    CHOOSE h \in Handles \ DOMAIN hp : \A k \in Handles \ DOMAIN hp : h <= k

\* commands.clone(): another handle to the same buffer
Commands_clone(h) == h

\* a push through handle h
Commands_push(hp, h, edits) == [hp EXCEPT ![h] = @ \o edits]

----------------------------------------------------------------------------
(* The boxed Systems *)

NoSystem ==
    [kind |-> "none", id |-> -1, func_id |-> -1, init_id |-> -1,
     commands |-> 0, thread_local_execution |-> "none",
     components |-> {}, views |-> <<>>, cmdparam |-> FALSE]

NoFrame ==
    [id |-> -1, commands |-> 0, iter |-> <<>>, visited |-> <<>>, invoked |-> 0,
     views |-> <<>>]

\* the value of last after a step of no exclusive-phase operation
Step == [op |-> "step", slot |-> 0, n |-> 0]

NoLookup ==
    [slot |-> 0, entity |-> -1, comp |-> "", mutable |-> FALSE,
     shape |-> {}, result |-> [ok |-> FALSE, val |-> ""]]

\* the signatures the constructors are used with: components (A) and (A, B)
\* of the for-each arities 1..8, no view and one view of the query arities
\* 0..6, with and without a Commands parameter
ForEachSignatures ==
    {[components |-> {"A"}, cmdparam |-> TRUE],
     [components |-> {"A", "B"}, cmdparam |-> FALSE]}
QuerySignatures ==
    {[views |-> <<>>, cmdparam |-> FALSE],
     [views |-> <<{"A"}>>, cmdparam |-> TRUE]}

\* a constructor that does not use the issued id
ForEachSystemFn_shared_id(id, h, comps, cmdparam) ==
    [kind |-> "foreach", id |-> 0, func_id |-> 0, init_id |-> 0,
     commands |-> h, thread_local_execution |-> "NextFlush",
     components |-> comps, views |-> <<>>, cmdparam |-> cmdparam]

\* the SystemFn literal of IntoForEachSystem::system; func and init_func are
\* move closures that each capture a copy of id
ForEachSystemFn(id, h, comps, cmdparam) ==
    [kind |-> "foreach", id |-> id, func_id |-> id, init_id |-> id,
     commands |-> h, thread_local_execution |-> "NextFlush",
     components |-> comps, views |-> <<>>, cmdparam |-> cmdparam]

\* a query constructor that marks its unit Immediate
QuerySystemFn_immediate(id, h, views, cmdparam) ==
    [kind |-> "query", id |-> id, func_id |-> id, init_id |-> id,
     commands |-> h, thread_local_execution |-> "Immediate",
     components |-> {}, views |-> views, cmdparam |-> cmdparam]

\* a query constructor whose func closure fetches under another id
QuerySystemFn_other_id(id, h, views, cmdparam) ==
    [kind |-> "query", id |-> id, func_id |-> id + 1, init_id |-> id,
     commands |-> h, thread_local_execution |-> "NextFlush",
     components |-> {}, views |-> views, cmdparam |-> cmdparam]

\* the SystemFn literal of IntoQuerySystem::system
QuerySystemFn(id, h, views, cmdparam) ==
    [kind |-> "query", id |-> id, func_id |-> id, init_id |-> id,
     commands |-> h, thread_local_execution |-> "NextFlush",
     components |-> {}, views |-> views, cmdparam |-> cmdparam]

\* the ThreadLocalSystem literal of ThreadLocalSystem::new
ThreadLocalSystemOf(id) ==
    [kind |-> "thread_local", id |-> id, func_id |-> -1, init_id |-> -1,
     commands |-> 0, thread_local_execution |-> "none",
     components |-> {}, views |-> <<>>, cmdparam |-> FALSE]

IsSystemFn(sys) == sys.kind \in {"foreach", "query"}

SystemFn_thread_local_execution(sys) == sys.thread_local_execution

ThreadLocalSystem_thread_local_execution(sys) == "Immediate"

\* System::thread_local_execution through Box<dyn System>
thread_local_execution(sys) ==
    IF sys.kind = "thread_local" THEN ThreadLocalSystem_thread_local_execution(sys)
    ELSE SystemFn_thread_local_execution(sys)

\* System::id through Box<dyn System>
System_id(sys) == sys.id

\* a call that hands the user function a copy of the buffer of its own,
\* dropped when the call returns
fn_call_deep_copy(cmdparam, commands) ==
    IF cmdparam THEN Commands_default(heap) ELSE 0

\* fn_call!: the Commands argument the user function is called with: a clone
\* of the closure's handle when the function declares one, none otherwise
fn_call(cmdparam, commands) == IF cmdparam THEN Commands_clone(commands) ELSE 0

\* a lookup that answers a missing component with a default value
Query_get_default(w, shape, e, t) ==
    IF World_get(w, e, t).ok THEN World_get(w, e, t)
    ELSE [ok |-> TRUE, val |-> "default"]

\* Query::get::<T>(entity)
Query_get(w, shape, e, t) == World_get(w, e, t)

\* Query::get_mut::<T>(entity)
Query_get_mut(w, shape, e, t) == World_get(w, e, t)

----------------------------------------------------------------------------
(* Borrows: run takes &World and &Resources, run_thread_local takes          *)
(* &mut World and &mut Resources, every call takes &mut self                *)

SharedBorrowed == \E t \in Slots : pc[t] = "in_run"
MutBorrowed == \E t \in Slots : pc[t] = "in_run_thread_local"

\* the edits pending in all buffers, in handle order
Pending ==
    LET RECURSIVE Cat(_)
        Cat(H) ==
            IF H = {} THEN <<>>
            ELSE LET h == CHOOSE x \in H : \A y \in H : x <= y
                 IN heap[h] \o Cat(H \ {h})
    IN Cat(DOMAIN heap)

PendingSpawns == Cardinality({i \in 1..Len(Pending) : Pending[i].op = "spawn"})

\* what a user function holding handle h may record in one invocation: at most
\* n edits, within the buffer's bound and the store's capacity
UserEdits(h, n) ==
    IF h = 0 THEN {<<>>}
    ELSE {q \in {<<>>} \cup {<<a>> : a \in Edits} \cup {<<a, b>> : a, b \in Edits} :
            /\ Len(q) <= n
            /\ Len(Pending) + Len(q) <= MaxCommands
            /\ Cardinality({i \in 1..Len(q) : q[i].op = "spawn"}) + PendingSpawns
                   + Cardinality(DOMAIN world) <= MaxEntities}

----------------------------------------------------------------------------
(* Construction *)

\* SystemId::new(): the first statement of every constructor
SystemId_new(s) ==
    /\ pc[s] = "none"
    /\ frame' = [frame EXCEPT ![s] = [NoFrame EXCEPT !.id = next_id]]
    /\ next_id' = next_id + 1
    /\ pc' = [pc EXCEPT ![s] = "constructing"]
    /\ last' = Step
    /\ lookup' = NoLookup
    /\ UNCHANGED <<systems, heap, world, resources, inits, recorded>>

Boxed(s, sys, hp) ==
    /\ pc[s] = "constructing"
    /\ systems' = [systems EXCEPT ![s] = sys]
    /\ heap' = hp
    /\ frame' = [frame EXCEPT ![s] = NoFrame]
    /\ pc' = [pc EXCEPT ![s] = "idle"]
    /\ last' = Step
    /\ lookup' = NoLookup
    /\ UNCHANGED <<next_id, world, resources, inits, recorded>>

IntoForEachSystem_system(s, comps, cmdparam) ==
    LET h == Commands_default(heap)
    IN Boxed(s, ForEachSystemFn(frame[s].id, h, comps, cmdparam), heap @@ (h :> <<>>))

\* a query constructor that hands the new unit a buffer already in use when
\* there is one
IntoQuerySystem_system_shared_commands(s, views, cmdparam) ==
    LET h == IF DOMAIN heap = {} THEN Commands_default(heap)
             ELSE CHOOSE k \in DOMAIN heap : TRUE
    IN Boxed(s, QuerySystemFn(frame[s].id, h, views, cmdparam), heap @@ (h :> <<>>))

IntoQuerySystem_system(s, views, cmdparam) ==
    LET h == Commands_default(heap)
    IN Boxed(s, QuerySystemFn(frame[s].id, h, views, cmdparam), heap @@ (h :> <<>>))

ThreadLocalSystem_new(s) ==
    Boxed(s, ThreadLocalSystemOf(frame[s].id), heap)

----------------------------------------------------------------------------
(* System::initialize *)

\* an initialize that does not call init_func
SystemFn_initialize_skips(s) ==
    /\ pc[s] = "idle"
    /\ IsSystemFn(systems[s])
    /\ ~SharedBorrowed /\ ~MutBorrowed
    /\ inits[s] < MaxInits
    /\ inits' = [inits EXCEPT ![s] = @ + 1]
    /\ last' = Step
    /\ lookup' = NoLookup
    /\ UNCHANGED <<next_id, systems, pc, frame, heap, world, resources, recorded>>

\* SystemFn::initialize: (self.init_func)(resources), which registers the
\* declared resources under the id the closure captured
SystemFn_initialize(s) ==
    /\ pc[s] = "idle"
    /\ IsSystemFn(systems[s])
    /\ ~SharedBorrowed /\ ~MutBorrowed
    /\ inits[s] < MaxInits
    /\ resources' = [resources EXCEPT ![systems[s].init_id] = @ + 1]
    /\ inits' = [inits EXCEPT ![s] = @ + 1]
    /\ last' = Step
    /\ lookup' = NoLookup
    /\ UNCHANGED <<next_id, systems, pc, frame, heap, world, recorded>>

\* ThreadLocalSystem does not override initialize: the trait's empty default
ThreadLocalSystem_initialize(s) ==
    /\ pc[s] = "idle"
    /\ systems[s].kind = "thread_local"
    /\ ~SharedBorrowed /\ ~MutBorrowed
    /\ inits[s] < MaxInits
    /\ inits' = [inits EXCEPT ![s] = @ + 1]
    /\ last' = Step
    /\ lookup' = NoLookup
    /\ UNCHANGED <<next_id, systems, pc, frame, heap, world, resources, recorded>>

----------------------------------------------------------------------------
(* System::run *)

\* a run whose for-each loop visits every live entity
SystemFn_run_all_entities(s) ==
    /\ pc[s] = "idle"
    /\ IsSystemFn(systems[s])
    /\ ~MutBorrowed
    /\ frame' = [frame EXCEPT ![s] =
                    [id |-> systems[s].func_id,
                     commands |-> Commands_clone(systems[s].commands),
                     iter |-> IF systems[s].kind = "foreach"
                              THEN World_query(world, {})
                              ELSE <<>>,
                     visited |-> <<>>,
                     invoked |-> 0,
                     views |-> systems[s].views]]
    /\ pc' = [pc EXCEPT ![s] = "in_run"]
    /\ last' = Step
    /\ lookup' = NoLookup
    /\ UNCHANGED <<next_id, systems, heap, world, resources, inits, recorded>>

\* a run that starts from an emptied buffer
SystemFn_run_fresh_buffer(s) ==
    /\ pc[s] = "idle"
    /\ IsSystemFn(systems[s])
    /\ ~MutBorrowed
    /\ frame' = [frame EXCEPT ![s] =
                    [id |-> systems[s].func_id,
                     commands |-> Commands_clone(systems[s].commands),
                     iter |-> IF systems[s].kind = "foreach"
                              THEN World_query(world, systems[s].components)
                              ELSE <<>>,
                     visited |-> <<>>,
                     invoked |-> 0,
                     views |-> systems[s].views]]
    /\ pc' = [pc EXCEPT ![s] = "in_run"]
    /\ last' = Step
    /\ lookup' = NoLookup
    /\ heap' = [heap EXCEPT ![systems[s].commands] = <<>>]
    /\ UNCHANGED <<next_id, systems, world, resources, inits, recorded>>

\* SystemFn::run enters self.func with a clone of self.commands; the closure
\* fetches the resources under its id and, in the for-each shape, opens the
\* query over the declared components, in the query shape, builds one Query
\* view per declared shape
SystemFn_run(s) ==
    /\ pc[s] = "idle"
    /\ IsSystemFn(systems[s])
    /\ ~MutBorrowed
    /\ frame' = [frame EXCEPT ![s] =
                    [id |-> systems[s].func_id,
                     commands |-> Commands_clone(systems[s].commands),
                     iter |-> IF systems[s].kind = "foreach"
                              THEN World_query(world, systems[s].components)
                              ELSE <<>>,
                     visited |-> <<>>,
                     invoked |-> 0,
                     views |-> systems[s].views]]
    /\ pc' = [pc EXCEPT ![s] = "in_run"]
    /\ last' = Step
    /\ lookup' = NoLookup
    /\ UNCHANGED <<next_id, systems, heap, world, resources, inits, recorded>>

\* one iteration of the for-each closure's loop: the user function is called
\* for the next matching entity and may record edits through its handle
ForEach_call(s) ==
    /\ pc[s] = "in_run"
    /\ systems[s].kind = "foreach"
    /\ frame[s].iter # <<>>
    /\ LET h == fn_call(systems[s].cmdparam, frame[s].commands)
       IN \E q \in UserEdits(h, 1) :
            /\ heap' = IF h = 0 THEN heap ELSE Commands_push(heap, h, q)
            /\ recorded' = [recorded EXCEPT ![s] = @ \o q]
            /\ last' = Step
    /\ frame' = [frame EXCEPT ![s].iter = Tail(@),
                              ![s].visited = Append(@, Head(frame[s].iter)),
                              ![s].invoked = @ + 1]
    /\ lookup' = NoLookup
    /\ UNCHANGED <<next_id, systems, pc, world, resources, inits>>

\* a query closure that calls the user function once per live entity
Query_call_per_entity(s) ==
    /\ pc[s] = "in_run"
    /\ systems[s].kind = "query"
    /\ frame[s].invoked < Cardinality(DOMAIN world)
    /\ LET h == fn_call(systems[s].cmdparam, frame[s].commands)
       IN \E q \in UserEdits(h, MaxCommands) :
            /\ heap' = IF h = 0 THEN heap ELSE Commands_push(heap, h, q)
            /\ recorded' = [recorded EXCEPT ![s] = @ \o q]
            /\ last' = Step
    /\ frame' = [frame EXCEPT ![s].invoked = @ + 1]
    /\ lookup' = NoLookup
    /\ UNCHANGED <<next_id, systems, pc, world, resources, inits>>

\* the query closure's single call of the user function, with one Query view
\* per declared shape
Query_call(s) ==
    /\ pc[s] = "in_run"
    /\ systems[s].kind = "query"
    /\ frame[s].invoked = 0
    /\ LET h == fn_call(systems[s].cmdparam, frame[s].commands)
       IN \E q \in UserEdits(h, MaxCommands) :
            /\ heap' = IF h = 0 THEN heap ELSE Commands_push(heap, h, q)
            /\ recorded' = [recorded EXCEPT ![s] = @ \o q]
            /\ last' = Step
    /\ frame' = [frame EXCEPT ![s].invoked = @ + 1]
    /\ lookup' = NoLookup
    /\ UNCHANGED <<next_id, systems, pc, world, resources, inits>>

\* inside the user function of a query system: a single-entity lookup through
\* one of its views
Query_lookup(s, e, t, mutable) ==
    /\ pc[s] = "in_run"
    /\ systems[s].kind = "query"
    /\ frame[s].invoked = 1
    /\ frame[s].views # <<>>
    /\ LET shape == frame[s].views[1]
       IN lookup' = [slot |-> s, entity |-> e, comp |-> t, mutable |-> mutable,
                     shape |-> shape,
                     result |-> IF mutable THEN Query_get_mut(world, shape, e, t)
                                ELSE Query_get(world, shape, e, t)]
    /\ last' = Step
    /\ UNCHANGED <<next_id, systems, pc, frame, heap, world, resources, inits, recorded>>

\* self.func returns, and with it SystemFn::run
SystemFn_run_return(s) ==
    /\ pc[s] = "in_run"
    /\ IsSystemFn(systems[s])
    /\ IF systems[s].kind = "foreach" THEN frame[s].iter = <<>>
       ELSE frame[s].invoked = 1
    /\ frame' = [frame EXCEPT ![s] = NoFrame]
    /\ lookup' = NoLookup
    /\ pc' = [pc EXCEPT ![s] = "idle"]
    /\ last' = Step
    /\ UNCHANGED <<next_id, systems, heap, world, resources, inits, recorded>>

\* a ThreadLocalSystem::run that calls the wrapped function
ThreadLocalSystem_run_calls_func(s) ==
    /\ pc[s] = "idle"
    /\ systems[s].kind = "thread_local"
    /\ ~MutBorrowed
    /\ \E a \in {c \in Edits : c.op # "spawn"} :
          world' = Command_write(world, a)
    /\ last' = [op |-> "thread_local_fn", slot |-> s, n |-> 1]
    /\ lookup' = NoLookup
    /\ UNCHANGED <<next_id, systems, pc, frame, heap, resources, inits, recorded>>

\* ThreadLocalSystem::run: an empty body
ThreadLocalSystem_run(s) ==
    /\ pc[s] = "idle"
    /\ systems[s].kind = "thread_local"
    /\ ~MutBorrowed
    /\ last' = [op |-> "thread_local_run", slot |-> s, n |-> 0]
    /\ lookup' = NoLookup
    /\ UNCHANGED <<next_id, systems, pc, frame, heap, world, resources, inits, recorded>>

----------------------------------------------------------------------------
(* System::run_thread_local *)

\* a run_thread_local that would take the world by shared reference
run_thread_local_enter_shared(s) ==
    /\ pc[s] = "idle"
    /\ systems[s].kind # "none"
    /\ pc' = [pc EXCEPT ![s] = "in_run_thread_local"]
    /\ last' = Step
    /\ lookup' = NoLookup
    /\ UNCHANGED <<next_id, systems, frame, heap, world, resources, inits, recorded>>

\* a caller enters run_thread_local: it holds &mut World and &mut Resources
run_thread_local_enter(s) ==
    /\ pc[s] = "idle"
    /\ systems[s].kind # "none"
    /\ ~SharedBorrowed /\ ~MutBorrowed
    /\ pc' = [pc EXCEPT ![s] = "in_run_thread_local"]
    /\ last' = Step
    /\ lookup' = NoLookup
    /\ UNCHANGED <<next_id, systems, frame, heap, world, resources, inits, recorded>>

\* a run_thread_local that takes the buffer and drops it unapplied
SystemFn_run_thread_local_no_apply(s) ==
    /\ pc[s] = "in_run_thread_local"
    /\ IsSystemFn(systems[s])
    /\ LET commands == systems[s].commands
           \* the old buffer is dropped when the call returns: its name is
           \* free again in the state the call leaves
           kept == [h \in DOMAIN heap \ {commands} |-> heap[h]]
           fresh == Commands_default(kept)
       IN /\ systems' = [systems EXCEPT ![s].commands = fresh]
          /\ world' = world
          /\ heap' = kept @@ (fresh :> <<>>)
          /\ last' = [op |-> "flushed", slot |-> s, n |-> Len(heap[commands])]
    /\ pc' = [pc EXCEPT ![s] = "idle"]
    /\ recorded' = [recorded EXCEPT ![s] = <<>>]
    /\ lookup' = NoLookup
    /\ UNCHANGED <<next_id, frame, resources, inits>>

\* a flush that applies the buffer through the handle and keeps it
SystemFn_run_thread_local_keeps_buffer(s) ==
    /\ pc[s] = "in_run_thread_local"
    /\ IsSystemFn(systems[s])
    /\ LET commands == systems[s].commands
       IN /\ world' = Commands_apply(heap[commands], world)
          /\ last' = [op |-> "flushed", slot |-> s, n |-> Len(heap[commands])]
    /\ pc' = [pc EXCEPT ![s] = "idle"]
    /\ recorded' = [recorded EXCEPT ![s] = <<>>]
    /\ lookup' = NoLookup
    /\ UNCHANGED <<next_id, systems, heap, frame, resources, inits>>

\* SystemFn::run_thread_local: self.commands is replaced by a new buffer and
\* the old one is applied to the world, then dropped
SystemFn_run_thread_local(s) ==
    /\ pc[s] = "in_run_thread_local"
    /\ IsSystemFn(systems[s])
    /\ LET commands == systems[s].commands
           \* the old buffer is dropped when the call returns: its name is
           \* free again in the state the call leaves
           kept == [h \in DOMAIN heap \ {commands} |-> heap[h]]
           fresh == Commands_default(kept)
       IN /\ systems' = [systems EXCEPT ![s].commands = fresh]
          /\ world' = Commands_apply(heap[commands], world)
          /\ heap' = kept @@ (fresh :> <<>>)
          /\ last' = [op |-> "flushed", slot |-> s, n |-> Len(heap[commands])]
    /\ pc' = [pc EXCEPT ![s] = "idle"]
    /\ recorded' = [recorded EXCEPT ![s] = <<>>]
    /\ lookup' = NoLookup
    /\ UNCHANGED <<next_id, frame, resources, inits>>

\* what the wrapped function of a ThreadLocalSystem does with &mut World: at
\* most one structural edit, applied at once
ThreadLocalEdits ==
    {<<>>} \cup {<<a>> : a \in {c \in Edits :
                     c.op = "spawn" => Cardinality(DOMAIN world) + PendingSpawns < MaxEntities}}

\* ThreadLocalSystem::run_thread_local: self.func.run(world, resources)
ThreadLocalSystem_run_thread_local(s) ==
    /\ pc[s] = "in_run_thread_local"
    /\ systems[s].kind = "thread_local"
    /\ \E q \in ThreadLocalEdits :
          /\ world' = Commands_apply(q, world)
          /\ last' = [op |-> "thread_local_fn", slot |-> s, n |-> Len(q)]
    /\ pc' = [pc EXCEPT ![s] = "idle"]
    /\ lookup' = NoLookup
    /\ UNCHANGED <<next_id, systems, frame, heap, resources, inits, recorded>>

----------------------------------------------------------------------------
(* Specifications *)

\* the worlds a run can start from
InitWorlds ==
    {[e \in {} |-> {}],
     [e \in {0} |-> {"A"}],
     [e \in Entities |-> IF e = 0 THEN {"A", "B"} ELSE {"A"}]}

Init ==
    /\ next_id = 0
    /\ systems = [s \in Slots |-> NoSystem]
    /\ pc = [s \in Slots |-> "none"]
    /\ frame = [s \in Slots |-> NoFrame]
    /\ heap = [h \in {} |-> <<>>]
    /\ world \in InitWorlds
    /\ resources = [i \in Ids |-> 0]
    /\ inits = [s \in Slots |-> 0]
    /\ recorded = [s \in Slots |-> <<>>]
    /\ lookup = NoLookup
    /\ last = Step

Construct(s) ==
    \/ SystemId_new(s)
    \/ \E sig \in ForEachSignatures :
          IntoForEachSystem_system(s, sig.components, sig.cmdparam)
    \/ \E sig \in QuerySignatures :
          IntoQuerySystem_system(s, sig.views, sig.cmdparam)
    \/ ThreadLocalSystem_new(s)

InRun(s) ==
    \/ ForEach_call(s)
    \/ Query_call(s)
    \/ \E e \in Entities, t \in Components, mutable \in BOOLEAN :
          Query_lookup(s, e, t, mutable)
    \/ SystemFn_run_return(s)

InRunThreadLocal(s) ==
    \/ SystemFn_run_thread_local(s)
    \/ ThreadLocalSystem_run_thread_local(s)

\* any caller the borrow rules admit
Next ==
    \E s \in Slots :
        \/ Construct(s)
        \/ SystemFn_initialize(s)
        \/ ThreadLocalSystem_initialize(s)
        \/ SystemFn_run(s)
        \/ ThreadLocalSystem_run(s)
        \/ InRun(s)
        \/ run_thread_local_enter(s)
        \/ InRunThreadLocal(s)

Spec == Init /\ [][Next]_vars

\* a scheduler that keeps the System contract: initialize exactly once per
\* unit, before any run or run_thread_local of that unit
SchedNext ==
    \E s \in Slots :
        \/ Construct(s)
        \/ inits[s] = 0 /\ SystemFn_initialize(s)
        \/ inits[s] = 0 /\ ThreadLocalSystem_initialize(s)
        \/ inits[s] = 1 /\ SystemFn_run(s)
        \/ inits[s] = 1 /\ ThreadLocalSystem_run(s)
        \/ InRun(s)
        \/ inits[s] = 1 /\ run_thread_local_enter(s)
        \/ InRunThreadLocal(s)

SchedSpec == Init /\ [][SchedNext]_vars

----------------------------------------------------------------------------
(* Properties *)

\* the buffer of the unit in slot s
Buffer(s) == heap[systems[s].commands]

Built(s) == systems[s].kind # "none"

IsPrefix(p, q) == Len(p) <= Len(q) /\ \A i \in 1..Len(p) : p[i] = q[i]

RECURSIVE EditsApplied(_, _, _)
\* the world after the first n edits of buf, one after the other
EditsApplied(buf, n, w) ==
    IF n = 0 THEN w
    ELSE Command_write(EditsApplied(buf, n - 1, w), buf[n])

\* C1: for a unit built by a for-each or query constructor, no step that
\* enters or stays inside its run changes the world, and the step that
\* completes its run_thread_local leaves the world as it was with exactly the
\* edits recorded since the last flush applied in recording order, and leaves
\* the unit's buffer empty.
C1_EditsDeferredUntilFlush ==
    [][\A s \in Slots : IsSystemFn(systems[s]) =>
          /\ (pc'[s] = "in_run" => world' = world)
          /\ (pc[s] = "in_run_thread_local" /\ pc'[s] = "idle" =>
                /\ world' = EditsApplied(recorded[s], Len(recorded[s]), world)
                /\ heap'[systems'[s].commands] = <<>>)]_vars

\* a flush has just applied two recorded edits
C1_Witness == last.op = "flushed" /\ last.n = 2

\* C2: inside the run of a for-each unit, the entities already passed to the
\* user function followed by those still to come are exactly the live entities
\* that carry every declared component, each once; the function has been
\* called once per entity passed, so at the end of the loop it has been called
\* exactly K times, and never for an entity that lacks a declared component.
C2_ForEachVisitsMatches ==
    \A s \in Slots : (pc[s] = "in_run" /\ systems[s].kind = "foreach") =>
        LET matching == {e \in DOMAIN world :
                            \A c \in systems[s].components : c \in world[e]}
            all == frame[s].visited \o frame[s].iter
        IN /\ Range(all) = matching
           /\ Len(all) = Cardinality(matching)
           /\ frame[s].invoked = Len(frame[s].visited)

\* a for-each run has finished its loop with at least one call while a live
\* entity lacks a declared component
C2_Witness ==
    \E s \in Slots :
        /\ pc[s] = "in_run" /\ systems[s].kind = "foreach"
        /\ frame[s].iter = <<>> /\ frame[s].invoked >= 1
        /\ \E e \in DOMAIN world : ~(systems[s].components \subseteq world[e])

\* C3: the wrapped function of a ThreadLocalSystem is called, and the world
\* changed, only by a step that completes a run_thread_local; every completed
\* run_thread_local of a ThreadLocalSystem is one call of its function; its
\* run changes neither the world nor the resources nor any unit.
C3_ExclusiveRunIsNoOp ==
    [][/\ (world' # world \/ last'.op = "thread_local_fn") =>
              \E s \in Slots : pc[s] = "in_run_thread_local" /\ pc'[s] = "idle"
       /\ \A s \in Slots :
              (systems[s].kind = "thread_local"
                  /\ pc[s] = "in_run_thread_local" /\ pc'[s] = "idle") =>
              (last'.op = "thread_local_fn" /\ last'.slot = s)
       /\ last'.op = "thread_local_run" =>
              (/\ systems[last'.slot].kind = "thread_local"
               /\ UNCHANGED <<world, resources, heap, systems, recorded>>)]_vars

\* a ThreadLocalSystem's run has just returned over a world that is not empty
C3_Witness == last.op = "thread_local_run" /\ DOMAIN world # {}

\* C4 as claimed: whenever a run of a Parallel unit begins (its user function
\* not yet called), the unit's buffer is empty.
C4_Original ==
    \A s \in Slots :
        (IsSystemFn(systems[s]) /\ pc[s] = "in_run" /\ frame[s].invoked = 0) =>
            heap[frame[s].commands] = <<>>

\* C4 as amended: a Parallel unit's buffer is emptied by the step that
\* completes its run_thread_local and by no other step: every other step,
\* the beginning of a run included, keeps what the buffer holds and at most
\* appends to it.
C4_BufferEmptiedOnlyByFlush ==
    [][\A s \in Slots : IsSystemFn(systems[s]) =>
          IF pc[s] = "in_run_thread_local" /\ pc'[s] = "idle"
          THEN heap'[systems'[s].commands] = <<>>
          ELSE IsPrefix(Buffer(s), heap'[systems'[s].commands])]_vars

\* a run begins over a buffer that still holds an earlier run's edits
C4_Witness ==
    \E s \in Slots :
        /\ IsSystemFn(systems[s]) /\ pc[s] = "in_run" /\ frame[s].invoked = 0
        /\ Buffer(s) # <<>>

\* the id a slot holds: the constructor's local while it runs, the unit's after
IdOf(s) == IF pc[s] = "constructing" THEN frame[s].id ELSE System_id(systems[s])

\* C5: any two units, built or under construction at the same time, by
\* whichever constructors, hold different ids.
C5_IdsDistinct ==
    \A s, t \in Slots :
        (s # t /\ pc[s] # "none" /\ pc[t] # "none") => IdOf(s) # IdOf(t)

\* two units built by different constructors
C5_Witness ==
    \E s, t \in Slots :
        /\ systems[s].kind = "foreach"
        /\ systems[t].kind \in {"query", "thread_local"}

\* C6: in every state, whatever calls have been made, a unit built by a
\* for-each or query constructor reports NextFlush and a ThreadLocalSystem
\* reports Immediate.
C6_ExecutionModeFixed ==
    \A s \in Slots :
        /\ IsSystemFn(systems[s]) => thread_local_execution(systems[s]) = "NextFlush"
        /\ systems[s].kind = "thread_local" =>
               thread_local_execution(systems[s]) = "Immediate"

\* a query unit has been initialized, run and flushed beside a ThreadLocalSystem
C6_Witness ==
    \E s, t \in Slots :
        /\ systems[s].kind = "query" /\ inits[s] = 1
        /\ last.op = "flushed" /\ last.slot = s /\ last.n > 0
        /\ systems[t].kind = "thread_local"

\* the entity of a lookup is missing or lacks the requested component
Missing(w, e, t) == e \notin DOMAIN w \/ t \notin w[e]

\* C7: a Query::get or get_mut leaves the world unchanged, and on an entity
\* that does not exist or lacks the requested component it returns an error,
\* NoSuchEntity or MissingComponent, never a value.
C7_LookupOfMissingFails ==
    [][lookup'.slot # 0 =>
          /\ world' = world
          /\ Missing(world, lookup'.entity, lookup'.comp) =>
                (/\ ~lookup'.result.ok
                 /\ lookup'.result.val \in {"NoSuchEntity", "MissingComponent"})]_vars

\* a get_mut on a live entity that lacks the component has returned an error
C7_Witness ==
    /\ lookup.slot # 0 /\ lookup.mutable
    /\ lookup.entity \in DOMAIN world
    /\ lookup.comp \notin world[lookup.entity]
    /\ ~lookup.result.ok

\* C8 as claimed: a lookup of a component that is not part of the view's
\* declared shape returns an error and no component, and that error is
\* ShapeMismatch when the entity exists and carries the component.
C8_ShapeMismatch ==
    (lookup.slot # 0 /\ lookup.comp \notin lookup.shape) =>
        /\ ~lookup.result.ok
        /\ ~Missing(world, lookup.entity, lookup.comp) =>
               lookup.result.val = "ShapeMismatch"

\* C9: inside every run the resources were fetched under the unit's own id;
\* every registration made by initialize is under the id of the unit that
\* made it; two units running at the same time fetched under different ids.
C9_FetchKeyedByOwnId ==
    /\ \A s \in Slots : (pc[s] = "in_run") => frame[s].id = System_id(systems[s])
    /\ \A s \in Slots : (Built(s) /\ IsSystemFn(systems[s])) =>
           resources[System_id(systems[s])] = inits[s]
    /\ \A i \in Ids :
           (resources[i] > 0) =>
               \E s \in Slots : IsSystemFn(systems[s]) /\ System_id(systems[s]) = i
    /\ \A s, t \in Slots :
           (s # t /\ pc[s] = "in_run" /\ pc[t] = "in_run") => frame[s].id # frame[t].id

\* two initialized units are inside their runs at the same time
C9_Witness ==
    \A s \in Slots : pc[s] = "in_run" /\ inits[s] = 1

C11_ExclusivePhaseIsAlone ==
    \A s, t \in Slots :
        (s # t /\ pc[s] = "in_run_thread_local") =>
            pc[t] \notin {"in_run", "in_run_thread_local"}

\* a SystemFn with recorded edits is inside its run_thread_local while the
\* other unit, already initialized, waits
C11_Witness ==
    \E s, t \in Slots :
        /\ s # t
        /\ pc[s] = "in_run_thread_local" /\ IsSystemFn(systems[s])
        /\ recorded[s] # <<>>
        /\ pc[t] = "idle" /\ inits[t] = 1

\* C12: in a for-each unit that declares a Commands parameter, every call of
\* the user function receives a handle to the unit's own buffer, so the buffer
\* always holds exactly the edits the calls recorded, in call order, and the
\* step that completes the next run_thread_local applies all of them in that
\* order.
C12_ClonesShareOneBuffer ==
    [][\A s \in Slots : (systems[s].kind = "foreach" /\ systems[s].cmdparam) =>
          /\ heap'[systems'[s].commands] = recorded'[s]
          /\ (pc'[s] = "in_run" =>
                fn_call(systems'[s].cmdparam, frame'[s].commands) = systems'[s].commands)
          /\ (pc[s] = "in_run_thread_local" /\ pc'[s] = "idle" =>
                world' = EditsApplied(recorded[s], Len(recorded[s]), world))]_vars

\* a for-each run has called the user function for two entities and the
\* buffer holds two recorded edits
C12_Witness ==
    \E s \in Slots :
        /\ systems[s].kind = "foreach" /\ systems[s].cmdparam
        /\ pc[s] = "in_run" /\ frame[s].iter = <<>> /\ frame[s].invoked = 2
        /\ Len(heap[systems[s].commands]) = 2

\* C13: inside the run of a query unit the user function has been called at
\* most once, with one Query view per declared shape, and the run returns
\* only after exactly one call, however many entities the world holds and
\* however many views are declared.
C13_QueryCalledOnce ==
    [][\A s \in Slots : systems[s].kind = "query" =>
          /\ (pc'[s] = "in_run" =>
                /\ frame'[s].invoked <= 1
                /\ frame'[s].views = systems[s].views)
          /\ (pc[s] = "in_run" /\ pc'[s] = "idle" => frame[s].invoked = 1)]_vars

\* a query unit that declares no view has made its one call over a world of
\* two entities
C13_Witness ==
    \E s \in Slots :
        /\ systems[s].kind = "query" /\ systems[s].views = <<>>
        /\ pc[s] = "in_run" /\ frame[s].invoked = 1
        /\ Cardinality(DOMAIN world) = 2

\* C14: the buffer of a unit holds exactly the edits its user function has
\* recorded since the unit's last flush, in order; a flush applies exactly
\* those edits, each once and in order, and leaves nothing behind for the next
\* flush, and a flush of an empty buffer leaves the world unchanged.
C14_EachEditAppliedOnce ==
    [][\A s \in Slots :
          /\ (IsSystemFn(systems'[s]) => heap'[systems'[s].commands] = recorded'[s])
          /\ (IsSystemFn(systems[s]) /\ pc[s] = "in_run_thread_local" /\ pc'[s] = "idle" =>
                /\ world' = EditsApplied(Buffer(s), Len(Buffer(s)), world)
                /\ (Buffer(s) = <<>> => world' = world))]_vars

\* a flush has applied the one edit recorded and left the unit's buffer empty
C14_Witness ==
    /\ last.op = "flushed" /\ last.n = 1
    /\ heap[systems[last.slot].commands] = <<>>
    /\ recorded[last.slot] = <<>>

\* C15: two adapter units never hold the same buffer; an invocation in flight
\* records into the buffer of its own unit; a step of one unit, its flush
\* included, leaves the handle and the buffer of every other unit as they
\* were, and the flush of a unit applies the edits of its own buffer only.
C15_BuffersDisjoint ==
    [][\A s, t \in Slots : (s # t /\ IsSystemFn(systems'[s])) =>
          /\ (IsSystemFn(systems'[t]) => systems'[s].commands # systems'[t].commands)
          /\ (pc'[s] = "in_run" => frame'[s].commands = systems'[s].commands)
          /\ ((IsSystemFn(systems[t]) /\ (pc'[s] # pc[s] \/ frame'[s] # frame[s])) =>
                /\ systems'[t] = systems[t]
                /\ heap'[systems'[t].commands] = heap[systems[t].commands])
          /\ ((IsSystemFn(systems[s]) /\ pc[s] = "in_run_thread_local" /\ pc'[s] = "idle") =>
                world' = EditsApplied(recorded[s], Len(recorded[s]), world))]_vars

\* one unit has flushed its one edit while the other unit's recorded edit is
\* still in that unit's buffer
C15_Witness ==
    /\ last.op = "flushed" /\ last.n = 1
    /\ \E t \in Slots :
          /\ t # last.slot /\ IsSystemFn(systems[t])
          /\ Len(recorded[t]) = 1
          /\ heap[systems[t].commands] = recorded[t]

====
